---- MODULE Spec2Model ----
(***************************************************************************)
(* Strided tensor bridge of src/python/common.h: copy_array_gather,        *)
(* copy_array_scatter, enoki_to_torch, torch_to_enoki, enoki_to_numpy,     *)
(* torch_dtype and CUDAManagedBuffer.                                      *)
(*                                                                         *)
(* size_t and uint32_t values are kept at their width.  A machine word is  *)
(* a little-endian sequence of 16-bit limbs (TLC integers are 32 bit), a   *)
(* size_t has four limbs and a uint32_t two.                               *)
(***************************************************************************)
EXTENDS Integers, Sequences, FiniteSets, TLC

(***************************************************************************)
(* Bounds of the model.                                                    *)
(***************************************************************************)
\* largest number of slices (dynamic extent) of an array handed to a conversion
MaxSlices == 3
\* number of CUDAManagedBuffer allocations followed in one behaviour
MaxBuffers == 2
\* largest number of host references to one wrapper object
MaxRefs == 2

(***************************************************************************)
(* Machine words.                                                          *)
(***************************************************************************)
LimbBase == 2^16
SizeTLimbs == 4
UInt32Limbs == 2
\* limbs used for the exact (unbounded) value of an index expression
ExactLimbs == SizeTLimbs + 2

\* the word of k limbs holding the natural number n (n < 2^31)
WordOf(n, k) ==
    [j \in 1..k |-> IF j = 1 THEN n % LimbBase
                    ELSE IF j = 2 THEN (n \div LimbBase) % LimbBase
                    ELSE 0]

\* does the word hold a value below 2^31 ?
Fits(w) ==
    /\ \A j \in 1..Len(w) : j > 2 => w[j] = 0
    /\ (Len(w) >= 2 => w[2] < 2^15)

NatOf(w) ==
    (IF Len(w) >= 1 THEN w[1] ELSE 0) + (IF Len(w) >= 2 THEN w[2] * LimbBase ELSE 0)

\* zero-extension or truncation of a word to k limbs
Resize(w, k) == [j \in 1..k |-> IF j <= Len(w) THEN w[j] ELSE 0]

\* (uint32_t) x
CastUInt32(w) == Resize(w, UInt32Limbs)

RECURSIVE AddCarry(_, _, _, _)
AddCarry(x, y, j, carry) ==
    IF j > Len(x) THEN <<>>
    ELSE LET s == x[j] + y[j] + carry
         IN  <<s % LimbBase>> \o AddCarry(x, y, j + 1, s \div LimbBase)

\* x + y on words of the same width, wrapping at the width
AddW(x, y) == AddCarry(x, y, 1, 0)

RECURSIVE MulCarry(_, _, _, _)
MulCarry(k, x, j, carry) ==
    IF j > Len(x) THEN <<>>
    ELSE LET p == k * x[j] + carry
         IN  <<p % LimbBase>> \o MulCarry(k, x, j + 1, p \div LimbBase)

\* k * x for a small natural k (k < 2^15), wrapping at the width of x
MulW(k, x) == MulCarry(k, x, 1, 0)

(***************************************************************************)
(* Arrays.  An array type is the sequence of the static sizes of its outer *)
(* levels (Array<Array<FloatC, 3>, 2> is <<2, 3>>, FloatC is <<>>); the    *)
(* innermost level is a CUDAArray, a record holding its slices.  A default *)
(* constructed CUDAArray is empty and not set.                             *)
(***************************************************************************)
EmptyCUDAArray == [set |-> FALSE, data |-> <<>>]

RECURSIVE DefaultArray(_)
DefaultArray(T) ==
    IF T = <<>> THEN EmptyCUDAArray
    ELSE [i \in 1..Head(T) |-> DefaultArray(Tail(T))]

(***************************************************************************)
(* The enoki primitives the bridge calls.                                  *)
(***************************************************************************)
\* value read through a mapped view at an index outside the view
OutOfRange == -2

\* arange<UInt32>(n): 0, 1, ..., n-1
arange(n) == [i \in 1..NatOf(n) |-> WordOf(i - 1, UInt32Limbs)]

\* fmadd(a, b, c): a * b + c, element by element, in 32 bit arithmetic
fmadd(a, b, c) == [i \in 1..Len(a) |-> AddW(MulW(NatOf(a[i]), b), c)]

\* one element of gather<Target>(source, index): source is the mapped view
ReadCell(source, ix) ==
    IF Fits(ix) /\ NatOf(ix) < Len(source) THEN source[NatOf(ix) + 1]
    ELSE OutOfRange

\* is i below the size_t value w ?
LessThan(i, w) == ~Fits(w) \/ i < NatOf(w)

(***************************************************************************)
(* copy_array_gather<Index, Dim>.  Index counts from 1 here, so the last   *)
(* level is Index = Dim.  The result holds the target, the index arrays    *)
(* handed to gather (in the order of the calls) and the number of          *)
(* target.coeff(i) accesses at or beyond the static size of the target.    *)
(***************************************************************************)
RECURSIVE copy_array_gather(_, _, _, _, _, _)
RECURSIVE gather_loop(_, _, _, _, _, _, _, _, _)
copy_array_gather(Index, offset, shape, strides, source, target) ==
    IF Index = Len(shape)
    THEN LET index == fmadd(arange(CastUInt32(shape[Index])),
                            CastUInt32(strides[Index]), CastUInt32(offset))
         IN  [target |-> [set |-> TRUE,
                          data |-> [k \in 1..Len(index) |-> ReadCell(source, index[k])]],
              issued |-> <<index>>,
              beyond |-> 0]
    ELSE gather_loop(Index, 0, offset, shape, strides, source, target, <<>>, 0)

gather_loop(Index, i, offset, shape, strides, source, target, issued, beyond) ==
    IF LessThan(i, shape[Index])
    THEN LET step == strides[Index]
             inside == i < Len(target)
             r == copy_array_gather(Index + 1, offset, shape, strides, source,
                                    IF inside THEN target[i + 1] ELSE target[1])
         IN  gather_loop(Index, i + 1, AddW(offset, step), shape, strides, source,
                         IF inside THEN [target EXCEPT ![i + 1] = r.target] ELSE target,
                         issued \o r.issued,
                         beyond + r.beyond + (IF inside THEN 0 ELSE 1))
    ELSE [target |-> target, issued |-> issued, beyond |-> beyond]

(***************************************************************************)
(* copy_array_scatter<Index, Dim>: the scatter operations it enqueues, in  *)
(* order; each has the index array and the values of the source slice.     *)
(***************************************************************************)
RECURSIVE copy_array_scatter(_, _, _, _, _)
RECURSIVE scatter_loop(_, _, _, _, _, _)
copy_array_scatter(Index, offset, shape, strides, source) ==
    IF Index = Len(shape)
    THEN LET index == fmadd(arange(CastUInt32(shape[Index])),
                            CastUInt32(strides[Index]), CastUInt32(offset))
         IN  <<[index |-> index, value |-> source.data]>>
    ELSE scatter_loop(Index, 0, offset, shape, strides, source)

scatter_loop(Index, i, offset, shape, strides, source) ==
    IF LessThan(i, shape[Index])
    THEN LET step == strides[Index]
         IN  copy_array_scatter(Index + 1, offset, shape, strides,
                                source[i + 1])
             \o scatter_loop(Index, i + 1, AddW(offset, step), shape, strides, source)
    ELSE <<>>

(***************************************************************************)
(* Scalar types and torch_dtype.                                           *)
(***************************************************************************)
Scalars == {"half", "float", "double", "long double", "bool",
            "int8_t", "uint8_t", "int16_t", "uint16_t",
            "int32_t", "uint32_t", "int64_t", "uint64_t"}

is_integral(Scalar) == Scalar \in {"bool", "int8_t", "uint8_t", "int16_t", "uint16_t",
                                   "int32_t", "uint32_t", "int64_t", "uint64_t"}

is_signed(Scalar) == Scalar \in {"half", "float", "double", "long double",
                                 "int8_t", "int16_t", "int32_t", "int64_t"}

sizeof(Scalar) ==
    CASE Scalar \in {"bool", "int8_t", "uint8_t"}      -> 1
      [] Scalar \in {"half", "int16_t", "uint16_t"}    -> 2
      [] Scalar \in {"float", "int32_t", "uint32_t"}   -> 4
      [] Scalar \in {"double", "int64_t", "uint64_t"}  -> 8
      [] OTHER                                         -> 16

\* the name left by the chain of tests; "nullptr" when no test applies
torch_dtype_name(Scalar) ==
    IF Scalar = "half" THEN "float16"
    ELSE IF Scalar = "float" THEN "float32"
    ELSE IF Scalar = "double" THEN "float64"
    ELSE IF is_integral(Scalar)
         THEN IF sizeof(Scalar) = 1 THEN (IF is_signed(Scalar) THEN "int8" ELSE "uint8")
              ELSE IF sizeof(Scalar) = 2 THEN "int16"
              ELSE IF sizeof(Scalar) = 4 THEN "int32"
              ELSE IF sizeof(Scalar) = 8 THEN "int64"
              ELSE "nullptr"
         ELSE "nullptr"

\* torch.attr(name): the dtype object of the torch module with that name
torch_attr(name) == [module |-> "torch", name |-> name]

(***************************************************************************)
(* Strings are sequences of characters.                                    *)
(***************************************************************************)
npos == -1

Tensor == <<"T", "e", "n", "s", "o", "r">>

\* std::string::find: the first position (from 0) where needle starts, or npos
find(hay, needle) ==
    LET hits == {p \in 0..(Len(hay) - Len(needle)) :
                    SubSeq(hay, p + 1, p + Len(needle)) = needle}
    IN  IF hits = {} THEN npos
        ELSE CHOOSE p \in hits : \A q \in hits : p <= q

(***************************************************************************)
(* Shapes and strides.                                                     *)
(***************************************************************************)
\* std::reverse
Reverse(s) == [i \in 1..Len(s) |-> s[Len(s) + 1 - i]]

RECURSIVE Product(_)
Product(s) == IF s = <<>> THEN 1 ELSE Head(s) * Product(Tail(s))

\* enoki::shape of an array of type T
RECURSIVE shape_of(_, _)
shape_of(T, a) ==
    IF T = <<>> THEN <<Len(a.data)>>
    ELSE <<Head(T)>> \o shape_of(Tail(T), a[1])

\* element strides of the tensor torch.empty returns (row-major, contiguous)
ContiguousStrides(sh) == [k \in 1..Len(sh) |-> Product(SubSeq(sh, k + 1, Len(sh)))]

\* the shape and strides as std::array<size_t, Depth>
AsSizeT(s) == [d \in 1..Len(s) |-> WordOf(s[d], SizeTLimbs)]

\* the loop of enoki_to_numpy over i = Depth - 1, ..., 0
RECURSIVE numpy_layout(_, _, _, _, _)
numpy_layout(shape_rev, i, size, strides, stride) ==
    IF i >= 1
    THEN numpy_layout(shape_rev, i - 1, size * shape_rev[i],
                      [strides EXCEPT ![i] = stride], stride * shape_rev[i])
    ELSE [size |-> size, strides |-> strides, stride |-> stride]

(***************************************************************************)
(* Device memory and the queue of enqueued scatters.                       *)
(***************************************************************************)
\* content of memory nobody has written yet
Uninit == -1
\* the address of the storage of the tensor the host holds
TorchStorage == 0

Fresh(n) == [k \in 1..n |-> Uninit]

RECURSIVE WriteCells(_, _, _)
WriteCells(cells, op, k) ==
    IF k > Len(op.index) \/ k > Len(op.value) THEN cells
    ELSE LET ix == op.index[k]
         IN  WriteCells(IF Fits(ix) /\ NatOf(ix) < Len(cells)
                        THEN [cells EXCEPT ![NatOf(ix) + 1] = op.value[k]]
                        ELSE cells,
                        op, k + 1)

\* memory after the enqueued operations ops have run, in order
RECURSIVE Run(_, _)
Run(memory, ops) ==
    IF ops = <<>> THEN memory
    ELSE LET op == Head(ops)
         IN  Run([memory EXCEPT ![op.ptr] = WriteCells(@, op, 1)], Tail(ops))

\* the scatters of copy_array_scatter<0>(0, shape, strides, src, target)
ScatterOps(ptr, shape, strides, src) ==
    LET ops == copy_array_scatter(1, WordOf(0, SizeTLimbs), AsSizeT(shape), AsSizeT(strides), src)
    IN  [k \in 1..Len(ops) |-> [ptr |-> ptr, index |-> ops[k].index, value |-> ops[k].value]]

(***************************************************************************)
(* Inputs of the conversions.                                              *)
(***************************************************************************)
\* FloatC, Vector2f, Vector3f, Vector4f and nested arrays of depth 3 and 4
ArrayTypes == {<<>>, <<2>>, <<3>>, <<4>>, <<2, 3>>, <<2, 3, 2>>}

Depth(T) == Len(T) + 1

\* the scalar types a CUDAArray can hold
CUDAScalars == Scalars \ {"long double"}

\* the template instantiations followed: Array type and its scalar_t
Instantiations ==
    [T : ArrayTypes, Scalar : {"float"}]
        \cup [T : {<<>>}, Scalar : CUDAScalars]
        \cup {[T |-> <<3>>, Scalar |-> "uint32_t"]}

Patterns == {"ascending", "descending"}

\* an array of type T with n slices whose element values differ at every position
RECURSIVE MakeArray(_, _, _, _, _)
MakeArray(T, n, first, total, pat) ==
    IF T = <<>>
    THEN [set |-> TRUE,
          data |-> [k \in 1..n |-> IF pat = "ascending" THEN first + k
                                   ELSE total + 1 - (first + k)]]
    ELSE [i \in 1..Head(T) |->
            MakeArray(Tail(T), n, first + (i - 1) * Product(Tail(T)) * n, total, pat)]

SourceArrays(T) ==
    {MakeArray(T, n, 0, Product(T) * n, pat) : n \in 1..MaxSlices, pat \in Patterns}

\* objects the host makes itself and hands to torch_to_enoki
TypeNames == {Tensor,
              <<"F", "l", "o", "a", "t">> \o Tensor,
              <<"n", "d", "a", "r", "r", "a", "y">>,
              <<"t", "e", "n", "s", "o", "r">>}

TorchDTypes == {torch_attr(n) : n \in {"float16", "float32", "float64", "int8", "uint8",
                                       "int16", "int32", "int64", "bool"}}

ForeignDTypes == TorchDTypes \cup {[module |-> "numpy", name |-> "float32"]}

ForeignShapes == UNION {[1..r -> {2, 3}] : r \in 0..5}

Layouts == {"contiguous", "transposed", "sliced"}

\* element strides of a tensor of shape sh: as allocated, as the transpose of a
\* contiguous tensor, or as every second element along dimension 0
ForeignStrides(sh, layout) ==
    IF layout = "contiguous" THEN ContiguousStrides(sh)
    ELSE IF layout = "transposed" THEN Reverse(ContiguousStrides(Reverse(sh)))
    ELSE [k \in 1..Len(sh) |-> IF k = 1 THEN 2 * ContiguousStrides(sh)[k]
                               ELSE ContiguousStrides(sh)[k]]

RECURSIVE Extent(_, _, _)
Extent(sh, st, k) ==
    IF k > Len(sh) THEN 1 ELSE (sh[k] - 1) * st[k] + Extent(sh, st, k + 1)

ForeignObject(name, dtype, sh, layout) ==
    [held |-> TRUE, type_name |-> name, dtype |-> dtype, shape |-> sh,
     stride |-> ForeignStrides(sh, layout), ptr |-> TorchStorage]

ForeignObjects ==
    {ForeignObject(Tensor, torch_attr("float32"), sh, l) : sh \in ForeignShapes, l \in Layouts}
        \cup {ForeignObject(Tensor, d, <<2>>, "contiguous") : d \in ForeignDTypes}
        \cup {ForeignObject(n, torch_attr("float32"), <<2>>, "contiguous") : n \in TypeNames}

NoTensor == [held |-> FALSE]
NoOrigin == [made |-> FALSE]
NoFrame == [fn |-> "none"]
NoResult == [kind |-> "none"]

(***************************************************************************)
(* State.                                                                  *)
(***************************************************************************)
VARIABLES
    pc,       \* position of the running conversion, "idle" when none runs
    loc,      \* its arguments and locals
    trace,    \* what it has done so far, in order
    ret,      \* what it returned or raised
    tensor,   \* the tensor object the host holds
    origin,   \* the array that tensor was made from by enoki_to_torch, if any
    bufs,     \* the CUDAManagedBuffer objects and the references to their wrappers
    gpu,      \* device memory: the cells of every live allocation
    pending,  \* scatters enqueued and not yet executed
    ix        \* arguments and outcome of a bare call of copy_array_gather/scatter

vars == <<pc, loc, trace, ret, tensor, origin, bufs, gpu, pending, ix>>

Buffers == 1..MaxBuffers

NoBuffer == [state |-> "unallocated", bytes |-> 0, frees |-> 0,
             arr_refs |-> 0, base_refs |-> 0, view |-> FALSE]

NoIx == [pc |-> "off"]

Init ==
    /\ pc = "idle"
    /\ loc = NoFrame
    /\ trace = <<>>
    /\ ret = NoResult
    /\ tensor = NoTensor
    /\ origin = NoOrigin
    /\ bufs = [b \in Buffers |-> NoBuffer]
    /\ gpu = [p \in {TorchStorage} \cup Buffers |-> <<>>]
    /\ pending = <<>>
    /\ ix = NoIx

\* references the host holds to the base object of buffer b
HostBaseRefs(b) == bufs[b].base_refs - (IF bufs[b].arr_refs > 0 THEN 1 ELSE 0)

HostHoldsNothing ==
    /\ ~tensor.held
    /\ \A b \in Buffers : bufs[b].arr_refs = 0 /\ bufs[b].base_refs = 0

\* cuda_eval(): everything enqueued runs
cuda_eval ==
    /\ gpu' = Run(gpu, pending)
    /\ pending' = <<>>

Raise(kind, events) ==
    /\ pc' = "raised"
    /\ ret' = [kind |-> kind]
    /\ trace' = trace \o events \o <<"throw">>

(***************************************************************************)
(* enoki_to_torch(src, eval)                                               *)
(***************************************************************************)
\* shape = enoki::shape(src), shape_rev = shape reversed
enoki_to_torch_call ==
    /\ pc = "idle"
    /\ HostHoldsNothing
    /\ \E A \in Instantiations, eval \in BOOLEAN :
         \E src \in SourceArrays(A.T) :
            LET shape == shape_of(A.T, src)
            IN  loc' = [fn |-> "enoki_to_torch", T |-> A.T, Scalar |-> A.Scalar,
                        src |-> src, eval |-> eval,
                        shape |-> shape, shape_rev |-> Reverse(shape)]
    /\ pc' = "e2t_dtype"
    /\ trace' = <<"call">>
    /\ ret' = NoResult
    /\ UNCHANGED <<tensor, origin, bufs, gpu, pending, ix>>

\* dtype_obj = torch_dtype<Scalar>()
enoki_to_torch_dtype ==
    /\ pc = "e2t_dtype"
    /\ LET name == torch_dtype_name(loc.Scalar)
       IN  IF name = "nullptr"
           THEN /\ Raise("runtime_error", <<"torch_dtype">>)
                /\ UNCHANGED loc
           ELSE /\ loc' = [dtype_obj |-> torch_attr(name)] @@ loc
                /\ pc' = "e2t_empty"
                /\ trace' = Append(trace, "torch_dtype")
                /\ UNCHANGED ret
    /\ UNCHANGED <<tensor, origin, bufs, gpu, pending, ix>>

\* result = torch.empty(shape_rev, dtype = dtype_obj, device = "cuda")
enoki_to_torch_empty ==
    /\ pc = "e2t_empty"
    /\ loc' = [result |-> [held |-> TRUE, type_name |-> Tensor, dtype |-> loc.dtype_obj,
                           shape |-> loc.shape_rev,
                           stride |-> ContiguousStrides(loc.shape_rev),
                           ptr |-> TorchStorage]] @@ loc
    /\ gpu' = [gpu EXCEPT ![TorchStorage] = Fresh(Product(loc.shape_rev))]
    /\ pc' = "e2t_map"
    /\ trace' = Append(trace, "empty")
    /\ UNCHANGED <<ret, tensor, origin, bufs, pending, ix>>

\* the strides left as the tensor gives them
enoki_to_torch_strides_unreversed(result) == result.stride
\* the strides handed to copy_array_scatter
enoki_to_torch_strides(result) == Reverse(result.stride)

\* size, strides = reversed result.stride(), target = map(result.data_ptr(), size)
enoki_to_torch_map ==
    /\ pc = "e2t_map"
    /\ loc' = [size |-> Product(loc.shape),
               strides |-> enoki_to_torch_strides(loc.result),
               target |-> [ptr |-> loc.result.ptr, size |-> Product(loc.shape)]] @@ loc
    /\ pc' = "e2t_scatter"
    /\ trace' = trace \o <<"stride", "data_ptr", "map">>
    /\ UNCHANGED <<ret, tensor, origin, bufs, gpu, pending, ix>>

\* copy_array_scatter<0>(0, shape, strides, src, target)
enoki_to_torch_scatter ==
    /\ pc = "e2t_scatter"
    /\ pending' = pending \o ScatterOps(loc.target.ptr, loc.shape, loc.strides, loc.src)
    /\ pc' = "e2t_eval"
    /\ trace' = Append(trace, "scatter")
    /\ UNCHANGED <<loc, ret, tensor, origin, bufs, gpu, ix>>

\* the step without its flush
enoki_to_torch_eval_skipped ==
    /\ pc = "e2t_eval"
    /\ pc' = "e2t_return"
    /\ UNCHANGED <<loc, trace, ret, tensor, origin, bufs, gpu, pending, ix>>

\* if (eval) cuda_eval()
enoki_to_torch_eval ==
    /\ pc = "e2t_eval"
    /\ IF loc.eval
       THEN cuda_eval /\ trace' = Append(trace, "cuda_eval")
       ELSE UNCHANGED <<gpu, pending, trace>>
    /\ pc' = "e2t_return"
    /\ UNCHANGED <<loc, ret, tensor, origin, bufs, ix>>

\* return result
enoki_to_torch_return ==
    /\ pc = "e2t_return"
    /\ tensor' = loc.result
    /\ origin' = [made |-> TRUE, T |-> loc.T, Scalar |-> loc.Scalar, src |-> loc.src]
    /\ ret' = [kind |-> "tensor"]
    /\ pc' = "done"
    /\ trace' = Append(trace, "return")
    /\ UNCHANGED <<loc, bufs, gpu, pending, ix>>

(***************************************************************************)
(* torch_to_enoki<Array>(src)                                              *)
(***************************************************************************)
torch_to_enoki_call ==
    /\ pc = "idle"
    /\ tensor.held
    /\ \E A \in Instantiations :
         loc' = [fn |-> "torch_to_enoki", T |-> A.T, Scalar |-> A.Scalar, src |-> tensor]
    /\ pc' = "t2e_name"
    /\ trace' = <<"call">>
    /\ ret' = NoResult
    /\ UNCHANGED <<tensor, origin, bufs, gpu, pending, ix>>

\* the test on the name of the type of src
torch_to_enoki_name ==
    /\ pc = "t2e_name"
    /\ LET type_name == loc.src.type_name
       IN  IF find(type_name, Tensor) = npos
           THEN Raise("reference_cast_error", <<"type_name">>)
           ELSE /\ pc' = "t2e_check"
                /\ trace' = Append(trace, "type_name")
                /\ UNCHANGED ret
    /\ UNCHANGED <<loc, tensor, origin, bufs, gpu, pending, ix>>

\* the test without its dtype half
torch_to_enoki_accepts_any_dtype(T, shape_obj, dtype_obj, target_dtype) ==
    ~(Len(shape_obj) # Depth(T))
\* the test without its shape half
torch_to_enoki_accepts_any_rank(T, shape_obj, dtype_obj, target_dtype) ==
    ~(dtype_obj # target_dtype)
\* does the tensor pass the test on the length of its shape and on its dtype ?
torch_to_enoki_accepts(T, shape_obj, dtype_obj, target_dtype) ==
    ~(Len(shape_obj) # Depth(T) \/ dtype_obj # target_dtype)

\* shape_obj, dtype_obj, target_dtype and the test on them
torch_to_enoki_check ==
    /\ pc = "t2e_check"
    /\ LET shape_obj == loc.src.shape
           dtype_obj == loc.src.dtype
           name == torch_dtype_name(loc.Scalar)
       IN  IF name = "nullptr"
           THEN Raise("runtime_error", <<"shape", "dtype", "torch_dtype">>)
           ELSE IF ~torch_to_enoki_accepts(loc.T, shape_obj, dtype_obj, torch_attr(name))
           THEN Raise("reference_cast_error", <<"shape", "dtype", "torch_dtype">>)
           ELSE /\ pc' = "t2e_map"
                /\ trace' = trace \o <<"shape", "dtype", "torch_dtype">>
                /\ UNCHANGED ret
    /\ UNCHANGED <<loc, tensor, origin, bufs, gpu, pending, ix>>

\* the shape and the strides handed to copy_array_gather
torch_to_enoki_shape(src) == Reverse(src.shape)
\* the strides left as the tensor gives them
torch_to_enoki_strides_unreversed(src) == src.stride
torch_to_enoki_strides(src) == Reverse(src.stride)

\* shape, strides, both reversed, size, source = map(src.data_ptr(), size)
torch_to_enoki_map ==
    /\ pc = "t2e_map"
    /\ LET shape == torch_to_enoki_shape(loc.src)
       IN  loc' = [shape |-> shape,
                   strides |-> torch_to_enoki_strides(loc.src),
                   size |-> Product(shape),
                   source |-> [ptr |-> loc.src.ptr, size |-> Product(shape)]] @@ loc
    /\ pc' = "t2e_gather"
    /\ trace' = trace \o <<"stride", "data_ptr", "map">>
    /\ UNCHANGED <<ret, tensor, origin, bufs, gpu, pending, ix>>

\* Array result; copy_array_gather<0>(0, shape, strides, source, result).
\* The gather runs after the scatters enqueued before it.  target.coeff(i)
\* with i at or beyond the static size is undefined: the write lands outside
\* the array and the call goes on, or the process dies.
torch_to_enoki_gather ==
    /\ pc = "t2e_gather"
    /\ LET r == copy_array_gather(1, WordOf(0, SizeTLimbs), AsSizeT(loc.shape),
                                  AsSizeT(loc.strides),
                                  Run(gpu, pending)[loc.source.ptr],
                                  DefaultArray(loc.T))
       IN  /\ loc' = [result |-> r.target, beyond |-> r.beyond] @@ loc
           /\ \/ pc' = "t2e_return"
              \/ r.beyond > 0 /\ pc' = "crashed"
    /\ trace' = Append(trace, "gather")
    /\ UNCHANGED <<ret, tensor, origin, bufs, gpu, pending, ix>>

\* return result
torch_to_enoki_return ==
    /\ pc = "t2e_return"
    /\ ret' = [kind |-> "array", value |-> loc.result]
    /\ pc' = "done"
    /\ trace' = Append(trace, "return")
    /\ UNCHANGED <<loc, tensor, origin, bufs, gpu, pending, ix>>

(***************************************************************************)
(* CUDAManagedBuffer and the two Python objects that keep it alive: the    *)
(* object py::cast makes with take_ownership (the base) and the py::array  *)
(* built over it, which holds one reference to the base.                   *)
(***************************************************************************)
\* ~CUDAManagedBuffer(): cuda_free(ptr)
CUDAManagedBuffer_destroy(buf) ==
    [buf EXCEPT !.state = "freed", !.frees = @ + 1, !.bytes = 0]

\* one reference to the base goes; the last one deletes the CUDAManagedBuffer
ReleaseBase(buf) ==
    LET r == [buf EXCEPT !.base_refs = @ - 1]
    IN  IF r.base_refs = 0 THEN CUDAManagedBuffer_destroy(r) ELSE r

\* one reference to the array goes; the last one releases its base
ReleaseArray(buf) ==
    LET r == [buf EXCEPT !.arr_refs = @ - 1]
    IN  IF r.arr_refs = 0 THEN ReleaseBase(r) ELSE r

\* buffer b becomes nb; when that freed it, its cells are gone and what was
\* enqueued on them is no longer followed
UpdateBuffer(b, nb) ==
    /\ bufs' = [bufs EXCEPT ![b] = nb]
    /\ IF nb.state = "freed" /\ bufs[b].state # "freed"
       THEN /\ gpu' = [gpu EXCEPT ![b] = <<>>]
            /\ pending' = SelectSeq(pending, LAMBDA op : op.ptr # b)
       ELSE UNCHANGED <<gpu, pending>>

UnusedBuffers == {b \in Buffers : bufs[b].state = "unallocated"}

(***************************************************************************)
(* enoki_to_numpy(src, eval)                                               *)
(***************************************************************************)
\* shape, shape_rev and the loop computing size, strides (in bytes) and stride
enoki_to_numpy_enter(A, src, eval) ==
    /\ pc = "idle"
    /\ UnusedBuffers # {}
    /\ LET shape == shape_of(A.T, src)
           shape_rev == Reverse(shape)
           l == numpy_layout(shape_rev, Depth(A.T), 1,
                             [d \in 1..Depth(A.T) |-> 0], sizeof(A.Scalar))
       IN  loc' = [fn |-> "enoki_to_numpy", T |-> A.T, Scalar |-> A.Scalar,
                   src |-> src, eval |-> eval, shape |-> shape, shape_rev |-> shape_rev,
                   size |-> l.size, strides |-> l.strides, stride |-> l.stride]
    /\ pc' = "e2n_new"
    /\ trace' = <<"call">>
    /\ ret' = NoResult
    /\ UNCHANGED <<tensor, origin, bufs, gpu, pending, ix>>

enoki_to_numpy_call ==
    /\ HostHoldsNothing
    /\ \E A \in Instantiations, eval \in BOOLEAN :
         \E src \in SourceArrays(A.T) : enoki_to_numpy_enter(A, src, eval)

\* buf = new CUDAManagedBuffer(stride)
enoki_to_numpy_new ==
    /\ pc = "e2n_new"
    /\ LET b == CHOOSE u \in UnusedBuffers : \A v \in UnusedBuffers : u <= v
       IN  /\ bufs' = [bufs EXCEPT ![b] = [NoBuffer EXCEPT !.state = "allocated",
                                                          !.bytes = loc.stride]]
           /\ gpu' = [gpu EXCEPT ![b] = Fresh(loc.stride \div sizeof(loc.Scalar))]
           /\ loc' = [buf |-> b] @@ loc
    /\ pc' = "e2n_cast"
    /\ trace' = Append(trace, "new")
    /\ UNCHANGED <<ret, tensor, origin, pending, ix>>

\* references to the base after py::cast(buf, take_ownership): the local buf_py
take_ownership(buf) == [buf EXCEPT !.base_refs = 1]

\* buf_py = py::cast(buf, py::return_value_policy::take_ownership)
enoki_to_numpy_cast ==
    /\ pc = "e2n_cast"
    /\ bufs' = [bufs EXCEPT ![loc.buf] = take_ownership(@)]
    /\ pc' = "e2n_array"
    /\ trace' = Append(trace, "cast")
    /\ UNCHANGED <<loc, ret, tensor, origin, gpu, pending, ix>>

\* an array that takes no reference to its base
array_without_base(buf) == [buf EXCEPT !.arr_refs = 1]
\* references after py::array(dtype, shape_rev, strides, ptr, base): the local
\* result holds the array, the array holds the base
array_with_base(buf) == [buf EXCEPT !.arr_refs = 1, !.base_refs = @ + 1]

\* py::array result(py::dtype::of<Scalar>(), shape_rev, strides, buf->ptr, buf_py)
enoki_to_numpy_array ==
    /\ pc = "e2n_array"
    /\ bufs' = [bufs EXCEPT ![loc.buf] = array_with_base(@)]
    /\ loc' = [result |-> [shape |-> loc.shape_rev, strides |-> loc.strides,
                           ptr |-> loc.buf, base |-> loc.buf]] @@ loc
    /\ pc' = "e2n_map"
    /\ trace' = Append(trace, "array")
    /\ UNCHANGED <<ret, tensor, origin, gpu, pending, ix>>

\* the number of elements given to CUDAArray<Scalar>::map
enoki_to_numpy_view_size(size, stride) == stride

\* the strides divided by sizeof(Scalar) and not reversed
enoki_to_numpy_strides_unreversed(strides, Scalar) ==
    [i \in 1..Len(strides) |-> strides[i] \div sizeof(Scalar)]
\* the strides handed to copy_array_scatter: each divided by sizeof(Scalar),
\* then reversed
enoki_to_numpy_strides(strides, Scalar) ==
    Reverse([i \in 1..Len(strides) |-> strides[i] \div sizeof(Scalar)])

\* target = map(buf->ptr, stride); strides /= sizeof(Scalar); reverse
enoki_to_numpy_map ==
    /\ pc = "e2n_map"
    /\ loc' = [target |-> [ptr |-> loc.buf,
                           size |-> enoki_to_numpy_view_size(loc.size, loc.stride)],
               strides |-> enoki_to_numpy_strides(loc.strides, loc.Scalar)] @@ loc
    /\ bufs' = [bufs EXCEPT ![loc.buf].view = TRUE]
    /\ pc' = "e2n_scatter"
    /\ trace' = Append(trace, "map")
    /\ UNCHANGED <<ret, tensor, origin, gpu, pending, ix>>

\* copy_array_scatter<0>(0, shape, strides, src, target)
enoki_to_numpy_scatter ==
    /\ pc = "e2n_scatter"
    /\ pending' = pending \o ScatterOps(loc.target.ptr, loc.shape, loc.strides, loc.src)
    /\ pc' = "e2n_eval"
    /\ trace' = Append(trace, "scatter")
    /\ UNCHANGED <<loc, ret, tensor, origin, bufs, gpu, ix>>

\* if (eval) cuda_eval()
enoki_to_numpy_eval ==
    /\ pc = "e2n_eval"
    /\ IF loc.eval
       THEN cuda_eval /\ trace' = Append(trace, "cuda_eval")
       ELSE UNCHANGED <<gpu, pending, trace>>
    /\ pc' = "e2n_return"
    /\ UNCHANGED <<loc, ret, tensor, origin, bufs, ix>>

\* return result: target and buf_py go out of scope, result goes to the caller
enoki_to_numpy_return ==
    /\ pc = "e2n_return"
    /\ UpdateBuffer(loc.buf, ReleaseBase([bufs[loc.buf] EXCEPT !.view = FALSE]))
    /\ ret' = [kind |-> "ndarray"]
    /\ pc' = "done"
    /\ trace' = Append(trace, "return")
    /\ UNCHANGED <<loc, tensor, origin, ix>>

(***************************************************************************)
(* The host.                                                               *)
(***************************************************************************)
\* the caller takes what the call returned or raised
Resume ==
    /\ pc \in {"done", "raised"}
    /\ pc' = "idle"
    /\ loc' = NoFrame
    /\ trace' = <<>>
    /\ ret' = NoResult
    /\ UNCHANGED <<tensor, origin, bufs, gpu, pending, ix>>

\* the host makes a tensor of its own; its storage holds 1, 2, 3, ...
HostMakesTensor ==
    /\ pc = "idle"
    /\ HostHoldsNothing
    /\ \E obj \in ForeignObjects :
         /\ tensor' = obj
         /\ gpu' = [gpu EXCEPT ![TorchStorage] =
                        [k \in 1..Extent(obj.shape, obj.stride, 1) |-> k]]
    /\ origin' = NoOrigin
    /\ pending' = SelectSeq(pending, LAMBDA op : op.ptr # TorchStorage)
    /\ UNCHANGED <<pc, loc, trace, ret, bufs, ix>>

\* the host lets go of its tensor
HostDropsTensor ==
    /\ pc = "idle"
    /\ tensor.held
    /\ tensor' = NoTensor
    /\ origin' = NoOrigin
    /\ gpu' = [gpu EXCEPT ![TorchStorage] = <<>>]
    /\ pending' = SelectSeq(pending, LAMBDA op : op.ptr # TorchStorage)
    /\ UNCHANGED <<pc, loc, trace, ret, bufs, ix>>

\* something else in the host makes the enqueued work run
HostCudaEval ==
    /\ pc = "idle"
    /\ pending # <<>>
    /\ cuda_eval
    /\ UNCHANGED <<pc, loc, trace, ret, tensor, origin, bufs, ix>>

\* one more reference to a numpy array the host holds
HostCopyRef ==
    /\ pc = "idle"
    /\ \E b \in Buffers :
         /\ bufs[b].arr_refs \in 1..(MaxRefs - 1)
         /\ bufs' = [bufs EXCEPT ![b].arr_refs = @ + 1]
    /\ UNCHANGED <<pc, loc, trace, ret, tensor, origin, gpu, pending, ix>>

\* one reference to a numpy array goes
HostDropRef ==
    /\ pc = "idle"
    /\ \E b \in Buffers :
         /\ bufs[b].arr_refs >= 1
         /\ UpdateBuffer(b, ReleaseArray(bufs[b]))
    /\ UNCHANGED <<pc, loc, trace, ret, tensor, origin, ix>>

\* the host takes a reference to the base of an array it holds (array.base)
HostTakesBase ==
    /\ pc = "idle"
    /\ \E b \in Buffers :
         /\ bufs[b].arr_refs >= 1
         /\ HostBaseRefs(b) < MaxRefs
         /\ bufs' = [bufs EXCEPT ![b].base_refs = @ + 1]
    /\ UNCHANGED <<pc, loc, trace, ret, tensor, origin, gpu, pending, ix>>

\* one reference of the host to a base goes
HostDropsBase ==
    /\ pc = "idle"
    /\ \E b \in Buffers :
         /\ HostBaseRefs(b) >= 1
         /\ UpdateBuffer(b, ReleaseBase(bufs[b]))
    /\ UNCHANGED <<pc, loc, trace, ret, tensor, origin, ix>>

(***************************************************************************)
(* The bridge: one conversion at a time, the host releases what it got     *)
(* before it asks for the next.                                            *)
(***************************************************************************)
Next ==
    \/ enoki_to_torch_call
    \/ enoki_to_torch_dtype
    \/ enoki_to_torch_empty
    \/ enoki_to_torch_map
    \/ enoki_to_torch_scatter
    \/ enoki_to_torch_eval
    \/ enoki_to_torch_return
    \/ torch_to_enoki_call
    \/ torch_to_enoki_name
    \/ torch_to_enoki_check
    \/ torch_to_enoki_map
    \/ torch_to_enoki_gather
    \/ torch_to_enoki_return
    \/ enoki_to_numpy_call
    \/ enoki_to_numpy_new
    \/ enoki_to_numpy_cast
    \/ enoki_to_numpy_array
    \/ enoki_to_numpy_map
    \/ enoki_to_numpy_scatter
    \/ enoki_to_numpy_eval
    \/ enoki_to_numpy_return
    \/ Resume
    \/ HostMakesTensor
    \/ HostDropsTensor
    \/ HostDropRef
    \/ HostCudaEval

Spec == Init /\ [][Next]_vars

(***************************************************************************)
(* Repeated conversions to numpy while the host keeps, copies and drops    *)
(* references to the wrappers it got.                                      *)
(***************************************************************************)
enoki_to_numpy_again ==
    \E eval \in BOOLEAN :
        enoki_to_numpy_enter([T |-> <<2>>, Scalar |-> "float"],
                             MakeArray(<<2>>, 1, 0, 2, "ascending"), eval)

NextLifetime ==
    \/ enoki_to_numpy_again
    \/ enoki_to_numpy_new
    \/ enoki_to_numpy_cast
    \/ enoki_to_numpy_array
    \/ enoki_to_numpy_map
    \/ enoki_to_numpy_scatter
    \/ enoki_to_numpy_eval
    \/ enoki_to_numpy_return
    \/ Resume
    \/ HostCopyRef
    \/ HostDropRef
    \/ HostTakesBase
    \/ HostDropsBase
    \/ HostCudaEval

SpecLifetime == Init /\ [][NextLifetime]_vars

(***************************************************************************)
(* copy_array_gather and copy_array_scatter on their own, over shapes,     *)
(* strides and offsets from the whole range of size_t.                     *)
(***************************************************************************)
IndexOffsets ==
    {WordOf(0, SizeTLimbs), WordOf(5, SizeTLimbs),
     <<65535, 65535, 0, 0>>, <<0, 0, 1, 0>>, <<65535, 65535, 65535, 65535>>}

IndexStrides ==
    {WordOf(1, SizeTLimbs), WordOf(3, SizeTLimbs),
     <<0, 1, 0, 0>>, <<0, 32768, 0, 0>>, <<0, 0, 1, 0>>, <<1, 0, 1, 0>>,
     <<0, 0, 0, 32768>>}

IndexOuterExtents == {WordOf(1, SizeTLimbs), WordOf(2, SizeTLimbs)}

IndexLastExtents == {WordOf(1, SizeTLimbs), WordOf(3, SizeTLimbs), <<2, 0, 1, 0>>}

IndexInputs ==
    UNION {[shape : {sh \in [1..D -> IndexOuterExtents \cup IndexLastExtents] :
                        /\ sh[D] \in IndexLastExtents
                        /\ \A d \in 1..(D - 1) : sh[d] \in IndexOuterExtents},
            strides : [1..D -> IndexStrides],
            offset : IndexOffsets] : D \in 1..2}

InitIndex ==
    /\ pc = "idle"
    /\ loc = NoFrame
    /\ trace = <<>>
    /\ ret = NoResult
    /\ tensor = NoTensor
    /\ origin = NoOrigin
    /\ bufs = [b \in Buffers |-> NoBuffer]
    /\ gpu = [p \in {TorchStorage} \cup Buffers |-> <<>>]
    /\ pending = <<>>
    /\ \E in \in IndexInputs : ix = [pc |-> "ready", in |-> in]

\* the array type whose static sizes are the outer extents of the shape
TypeOfShape(shape) == [d \in 1..(Len(shape) - 1) |-> NatOf(shape[d])]

bare_gather ==
    /\ ix.pc = "ready"
    /\ LET in == ix.in
           r == copy_array_gather(1, in.offset, in.shape, in.strides, <<1, 2, 3, 4>>,
                                  DefaultArray(TypeOfShape(in.shape)))
       IN  ix' = [pc |-> "gathered", in |-> in, issued |-> r.issued]
    /\ UNCHANGED <<pc, loc, trace, ret, tensor, origin, bufs, gpu, pending>>

bare_scatter ==
    /\ ix.pc = "ready"
    /\ LET in == ix.in
           T == TypeOfShape(in.shape)
           n == NatOf(CastUInt32(in.shape[Len(in.shape)]))
           ops == copy_array_scatter(1, in.offset, in.shape, in.strides,
                                     MakeArray(T, n, 0, Product(T) * n, "ascending"))
       IN  ix' = [pc |-> "scattered", in |-> in,
                  issued |-> [k \in 1..Len(ops) |-> ops[k].index]]
    /\ UNCHANGED <<pc, loc, trace, ret, tensor, origin, bufs, gpu, pending>>

NextIndex ==
    \/ bare_gather
    \/ bare_scatter

SpecIndex == InitIndex /\ [][NextIndex]_vars

(***************************************************************************)
(* Vocabulary of the properties.                                           *)
(***************************************************************************)
InTrace(e) == \E k \in 1..Len(trace) : trace[k] = e

\* every occurrence of b in the trace has an a before it
Before(a, b) ==
    \A k \in 1..Len(trace) : trace[k] = b => \E j \in 1..(k - 1) : trace[j] = a

Converting == loc.fn \in {"enoki_to_torch", "enoki_to_numpy"}

MinOf(s) == CHOOSE m \in {s[k] : k \in 1..Len(s)} : \A k \in 1..Len(s) : m <= s[k]
MaxOf(s) == CHOOSE m \in {s[k] : k \in 1..Len(s)} : \A k \in 1..Len(s) : m >= s[k]

\* the index tuples (from 0) of an array of the given shape
IndexTuples(shape) ==
    {idx \in [1..Len(shape) -> 0..(MaxOf(shape) - 1)] :
        \A d \in 1..Len(shape) : idx[d] < shape[d]}

RECURSIVE ElementAt(_, _, _)
ElementAt(T, a, idx) ==
    IF T = <<>> THEN a.data[idx[1] + 1]
    ELSE ElementAt(Tail(T), a[idx[1] + 1], Tail(idx))

RECURSIVE FullyWritten(_, _)
FullyWritten(T, a) ==
    IF T = <<>> THEN a.set
    ELSE \A i \in 1..Head(T) : FullyWritten(Tail(T), a[i])

RECURSIVE Dot(_, _)
Dot(x, y) == IF x = <<>> THEN 0 ELSE Head(x) * Head(y) + Dot(Tail(x), Tail(y))

\* shape and element strides of the external buffer of the running conversion
ExternalShape ==
    IF loc.fn = "torch_to_enoki" THEN loc.src.shape ELSE loc.result.shape

ExternalStrides ==
    IF loc.fn = "torch_to_enoki" THEN loc.src.stride
    ELSE IF loc.fn = "enoki_to_torch" THEN loc.result.stride
    ELSE [k \in 1..Len(loc.result.strides) |-> loc.result.strides[k] \div sizeof(loc.Scalar)]

(***************************************************************************)
(* C1  Round trip: a tensor made by enoki_to_torch from an array A and     *)
(* handed to torch_to_enoki of the same array type is accepted and gives   *)
(* back an array equal to A at every position.                             *)
(***************************************************************************)
SameInstantiation ==
    /\ loc.fn = "torch_to_enoki"
    /\ origin.made
    /\ loc.T = origin.T
    /\ loc.Scalar = origin.Scalar

C1_RoundTrip ==
    SameInstantiation =>
        /\ pc \notin {"raised", "crashed"}
        /\ pc = "done" =>
              /\ ret.kind = "array"
              /\ \A idx \in IndexTuples(shape_of(origin.T, origin.src)) :
                    ElementAt(loc.T, ret.value, idx) = ElementAt(origin.T, origin.src, idx)
              /\ ret.value = origin.src

C1_Witness ==
    /\ SameInstantiation
    /\ pc = "done"
    /\ Depth(loc.T) = 4
    /\ shape_of(origin.T, origin.src) = <<2, 3, 2, 3>>

(***************************************************************************)
(* C2  Element mapping: when enoki_to_torch or enoki_to_numpy returns, the *)
(* external buffer has the reversed shape and the element at logical index *)
(* (i_0, ..., i_{D-1}) is stored at the offset sum of i_d times the        *)
(* external stride of dimension D-1-d; distinct indices have distinct      *)
(* offsets, all inside the buffer.                                         *)
(***************************************************************************)
ExternalOffset(idx) == Dot(idx, Reverse(ExternalStrides))

\* the cells of the result once the scatters of the conversion have run
ResultCells ==
    IF loc.eval THEN gpu[loc.result.ptr] ELSE Run(gpu, pending)[loc.result.ptr]

C2_ElementMapping ==
    (Converting /\ pc = "done") =>
        LET shape == shape_of(loc.T, loc.src)
        IN  /\ ExternalShape = Reverse(shape)
            /\ ExternalStrides = ContiguousStrides(ExternalShape)
            /\ Len(ResultCells) = Product(shape)
            /\ \A idx \in IndexTuples(shape) :
                  /\ ExternalOffset(idx) < Len(ResultCells)
                  /\ ResultCells[ExternalOffset(idx) + 1] = ElementAt(loc.T, loc.src, idx)
            /\ \A i1, i2 \in IndexTuples(shape) :
                  i1 # i2 => ExternalOffset(i1) # ExternalOffset(i2)

C2_Witness ==
    /\ loc.fn = "enoki_to_numpy"
    /\ pc = "done"
    /\ shape_of(loc.T, loc.src) = <<2, 3>>
    /\ ResultCells[ExternalOffset(<<0, 2>>) + 1] = ElementAt(loc.T, loc.src, <<0, 2>>)
    /\ ExternalOffset(<<0, 2>>) = 4

(***************************************************************************)
(* C3  Dtype mismatch.  As claimed: torch_to_enoki goes on to the strides, *)
(* the data pointer and the gather only for a tensor whose element type is *)
(* the scalar type itself, same width and same signedness.                 *)
(***************************************************************************)
ClaimedScalars == {"half", "float", "double", "int8_t", "uint8_t", "int16_t", "uint16_t",
                   "int32_t", "uint32_t", "int64_t", "uint64_t"}

\* the element type of the same kind, width and signedness
IdenticalDType(Scalar) ==
    CASE Scalar = "half"     -> "float16"
      [] Scalar = "float"    -> "float32"
      [] Scalar = "double"   -> "float64"
      [] Scalar = "int8_t"   -> "int8"
      [] Scalar = "uint8_t"  -> "uint8"
      [] Scalar = "int16_t"  -> "int16"
      [] Scalar = "uint16_t" -> "uint16"
      [] Scalar = "int32_t"  -> "int32"
      [] Scalar = "uint32_t" -> "uint32"
      [] Scalar = "int64_t"  -> "int64"
      [] Scalar = "uint64_t" -> "uint64"
      [] OTHER               -> "none"

\* the one the code takes: for unsigned integers of 2, 4 and 8 bytes the
\* signed type of the same width
AcceptedDType(Scalar) ==
    CASE Scalar = "uint16_t" -> "int16"
      [] Scalar = "uint32_t" -> "int32"
      [] Scalar = "uint64_t" -> "int64"
      [] OTHER               -> IdenticalDType(Scalar)

TouchesMemory ==
    InTrace("stride") \/ InTrace("data_ptr") \/ InTrace("map") \/ InTrace("gather")

Finished == pc \in {"done", "raised", "crashed"}

C3_Original ==
    (loc.fn = "torch_to_enoki" /\ loc.Scalar \in ClaimedScalars /\ TouchesMemory) =>
        loc.src.dtype = torch_attr(IdenticalDType(loc.Scalar))

\* C3 as amended: the accepted element type is the one of AcceptedDType; any
\* other is rejected with a reference_cast_error before the strides and the
\* data pointer are read, before the view is mapped and before any gather.
C3_DtypeMismatch ==
    (loc.fn = "torch_to_enoki" /\ loc.Scalar \in ClaimedScalars) =>
        /\ TouchesMemory => loc.src.dtype = torch_attr(AcceptedDType(loc.Scalar))
        /\ (Finished /\ InTrace("dtype")
              /\ loc.src.dtype # torch_attr(AcceptedDType(loc.Scalar))) =>
                 /\ pc = "raised"
                 /\ ret.kind = "reference_cast_error"
                 /\ ~TouchesMemory

C3_Witness ==
    /\ loc.fn = "torch_to_enoki"
    /\ loc.Scalar = "uint32_t"
    /\ loc.src.dtype = torch_attr("uint8")
    /\ Len(loc.src.shape) = Depth(loc.T)
    /\ pc = "raised"
    /\ InTrace("dtype")

(***************************************************************************)
(* C4  Rank and kind of object: torch_to_enoki rejects, with a             *)
(* reference_cast_error and without mapping memory or gathering, an object *)
(* whose type name does not contain "Tensor" and a tensor whose shape is   *)
(* not as long as the array is deep; the name is tested before shape,      *)
(* dtype or stride are read.                                               *)
(***************************************************************************)
ContainsTensor(name) ==
    \E p \in 1..Len(name) : p + 5 <= Len(name) /\ SubSeq(name, p, p + 5) = Tensor

C4_RankAndKind ==
    loc.fn = "torch_to_enoki" =>
        /\ (InTrace("shape") \/ InTrace("dtype") \/ TouchesMemory) =>
              ContainsTensor(loc.src.type_name)
        /\ TouchesMemory => Len(loc.src.shape) = Depth(loc.T)
        /\ Before("type_name", "shape") /\ Before("type_name", "dtype")
        /\ Before("type_name", "stride")
        /\ (Finished /\ (~ContainsTensor(loc.src.type_name)
                            \/ Len(loc.src.shape) # Depth(loc.T))) =>
              /\ pc = "raised"
              /\ ret.kind = "reference_cast_error"
              /\ ~TouchesMemory

C4_Witness ==
    /\ loc.fn = "torch_to_enoki"
    /\ ContainsTensor(loc.src.type_name)
    /\ Len(loc.src.shape) = Depth(loc.T) + 1
    /\ loc.src.dtype = torch_attr(AcceptedDType(loc.Scalar))
    /\ pc = "raised"

(***************************************************************************)
(* C6  No partial success: when torch_to_enoki returns, every component of *)
(* the array at every level has been written by the gather, every outer    *)
(* extent of the reversed shape is the static size of its level and no     *)
(* component at or beyond the static size was written.                     *)
(***************************************************************************)
C6_NoPartialSuccess ==
    loc.fn = "torch_to_enoki" =>
        /\ pc # "crashed"
        /\ pc = "done" =>
              /\ FullyWritten(loc.T, ret.value)
              /\ loc.beyond = 0
              /\ \A d \in 1..Len(loc.T) : loc.shape[d] = loc.T[d]

(***************************************************************************)
(* C7  Alignment of the dimensions.  As claimed: the shape and the strides *)
(* handed to copy_array_scatter / copy_array_gather are those of the       *)
(* external descriptor reversed once, and the last index carries the       *)
(* smallest stride of the external buffer.                                 *)
(***************************************************************************)
CopyCalled == InTrace("scatter") \/ InTrace("gather")

ReversedOnce ==
    /\ Len(loc.shape) = Len(ExternalShape)
    /\ Len(loc.strides) = Len(ExternalStrides)
    /\ \A d \in 1..Len(loc.shape) :
          /\ loc.shape[d] = ExternalShape[Len(loc.shape) + 1 - d]
          /\ loc.strides[d] = ExternalStrides[Len(loc.shape) + 1 - d]

C7_Original ==
    CopyCalled =>
        /\ ReversedOnce
        /\ loc.strides[Len(loc.strides)] = MinOf(ExternalStrides)

\* C7 as amended: reversed once, so index 0 describes the outermost dimension
\* of the array, which is the last dimension of the external buffer; in the
\* buffers enoki_to_torch and enoki_to_numpy allocate that is the contiguous
\* one (stride 1) and the last index carries the largest stride, that of the
\* first, slowest-varying dimension of the external buffer.
C7_DimensionAlignment ==
    CopyCalled =>
        /\ ReversedOnce
        /\ Converting =>
              /\ loc.shape = shape_of(loc.T, loc.src)
              /\ loc.strides[1] = 1
              /\ loc.strides[1] = MinOf(ExternalStrides)
              /\ loc.strides[Len(loc.strides)] = MaxOf(ExternalStrides)
              /\ loc.strides[Len(loc.strides)] = ExternalStrides[1]

C7_Witness ==
    /\ loc.fn = "enoki_to_torch"
    /\ InTrace("scatter")
    /\ loc.shape = <<2, 3>>
    /\ ExternalStrides = <<2, 1>>
    /\ loc.strides = <<1, 2>>

(***************************************************************************)
(* C9  Order of the flush: with eval, cuda_eval is issued after the        *)
(* scatters of the conversion were enqueued and before the return, and     *)
(* none of them is pending when the caller gets the result; without eval   *)
(* no flush is issued and the scatters are still pending at the return.    *)
(***************************************************************************)
PendingOn(ptr) == {k \in 1..Len(pending) : pending[k].ptr = ptr}

C9_FlushOrder ==
    Converting =>
        /\ InTrace("cuda_eval") => (loc.eval /\ Before("scatter", "cuda_eval"))
        /\ pc = "done" =>
              IF loc.eval
              THEN /\ InTrace("cuda_eval")
                   /\ Before("cuda_eval", "return")
                   /\ \A k \in 1..Len(trace) :
                         trace[k] = "scatter" =>
                            \E j \in (k + 1)..Len(trace) : trace[j] = "cuda_eval"
                   /\ PendingOn(loc.result.ptr) = {}
                   /\ \A c \in 1..Len(gpu[loc.result.ptr]) : gpu[loc.result.ptr][c] # Uninit
              ELSE /\ ~InTrace("cuda_eval")
                   /\ Cardinality(PendingOn(loc.result.ptr)) = Product(loc.T)
                   /\ \A c \in 1..Len(gpu[loc.result.ptr]) : gpu[loc.result.ptr][c] = Uninit

C9_Witness ==
    /\ loc.fn = "enoki_to_torch"
    /\ pc = "done"
    /\ loc.eval
    /\ InTrace("cuda_eval")
    /\ Product(loc.T) = 12

(***************************************************************************)
(* C10  The mapped view stays within its buffer: the element count given   *)
(* to the view is the product of the extents of the shape, and the view    *)
(* spans no more bytes than the buffer under it holds.                     *)
(***************************************************************************)
MappedView == IF loc.fn = "torch_to_enoki" THEN loc.source ELSE loc.target

AllocatedBytes ==
    IF loc.fn = "enoki_to_numpy" THEN bufs[loc.buf].bytes
    ELSE Len(gpu[MappedView.ptr]) * sizeof(loc.Scalar)

C10_ViewWithinBuffer ==
    (InTrace("map") /\ ~Finished) =>
        /\ MappedView.size = Product(ExternalShape)
        /\ MappedView.size * sizeof(loc.Scalar) <= AllocatedBytes

RECURSIVE ExactSum(_, _, _)
ExactSum(acc, idx, strides) ==
    IF idx = <<>> THEN acc
    ELSE ExactSum(AddW(acc, MulW(Head(idx), Resize(Head(strides), ExactLimbs))),
                  Tail(idx), Tail(strides))

\* the exact value of offset + sum of idx[d] * strides[d]
ExactIndex(in, idx) == ExactSum(Resize(in.offset, ExactLimbs), idx, in.strides)

\* the outer index tuple of the L-th innermost call, in the order of the loops
RECURSIVE OuterIndex(_, _)
OuterIndex(L, extents) ==
    IF extents = <<>> THEN <<>>
    ELSE <<L \div Product(Tail(extents))>>
            \o OuterIndex(L % Product(Tail(extents)), Tail(extents))

C8_FlatIndexExact ==
    ix.pc \in {"gathered", "scattered"} =>
        LET in == ix.in
            D == Len(in.shape)
        IN  \A L \in 1..Len(ix.issued) :
                /\ WordOf(Len(ix.issued[L]), SizeTLimbs) = in.shape[D]
                /\ \A k \in 1..Len(ix.issued[L]) :
                      Resize(ix.issued[L][k], ExactLimbs) =
                         ExactIndex(in, OuterIndex(L - 1, TypeOfShape(in.shape)) \o <<k - 1>>)

====
